---- MODULE Spec2Model ----
(***************************************************************************)
(* A model of svswap.py, the Stardew Valley player/farmhand swap script.   *)
(*                                                                         *)
(* The script is one sequential run: parse the save file, locate the       *)
(* player and the farmhands container, read the farmhands' names, ask for  *)
(* a farmhand number, ask for confirmation, mutate the tree, rename the    *)
(* save file to <name>.orig and write the tree to the save path.           *)
(*                                                                         *)
(* lxml elements are objects with identity: the script keeps references    *)
(* (player, farmhands, target_farmhand) to elements while it detaches,     *)
(* retags and re-attaches them.  The model keeps the parsed tree as a heap *)
(* of elements, heap[id], whose children are sequences of ids; a file on   *)
(* disk holds a document without identities (a nested tree).               *)
(***************************************************************************)
EXTENDS Integers, Sequences, FiniteSets

VARIABLES
    pc,                 \* the statement the script is at
    fs,                 \* the two paths of the save directory: save_file, orig_file
    fs0,                \* the directory as it was when the run started
    heap,               \* the elements of the parsed tree (game_tree)
    game_root,          \* id of the root element
    player,             \* id of the player element
    player_name,
    farmhands,          \* id of the farmhands container
    farmhand_names,     \* List[Union[str, None]]
    i,                  \* loop counter of the name extraction
    target_farmhand_i,
    target_farmhand,
    target_farmhand_name,
    console,            \* what the last input() call returned or raised
    exit_status,        \* the process's exit status, Running until it ends
    message,            \* the last message of error()/exception()
    find_query,         \* a call of xml_find_one_child checked on its own
    find_result

vars == <<pc, fs, fs0, heap, game_root, player, player_name, farmhands,
          farmhand_names, i, target_farmhand_i, target_farmhand,
          target_farmhand_name, console, exit_status, message,
          find_query, find_result>>

(***************************************************************************)
(* Bounds                                                                  *)
(***************************************************************************)
\* The longest farmhand roster of the documents the run is started on.
MaxRoster == 2
\* The most children of a parent xml_find_one_child is called on by itself.
MaxChildren == 3

(***************************************************************************)
(* Python values                                                           *)
(***************************************************************************)
\* Python's None, where the other values are strings (an element's text,
\* a recorded farmhand name).
None == "None"
\* None where the other values are element references.
NoElement == 0
\* target_farmhand_i = None
NoIndex == -1
\* No exit status yet: the process is running.
Running == -1
\* No exception raised.
NoExc == "ok"
KeyErrorMultiple == "KeyError: Found multiple"
KeyErrorNotFound == "KeyError: Could not find"

(***************************************************************************)
(* Documents and elements                                                  *)
(***************************************************************************)
\* An element as a file holds it: tag, text, attributes (a set of
\* <<name, value>> pairs) and the child elements in document order.
Elem(tag, text, attrib, children) ==
    [tag |-> tag, text |-> text, attrib |-> attrib, children |-> children]

Leaf(tag, text) == Elem(tag, text, {}, <<>>)

\* ElementTree.parse: every element of the document becomes an object of its
\* own; ids are given in document order, the root is 1.
RECURSIVE ParseElem(_, _), ParseChildren(_, _, _)
ParseElem(t, h) ==
    LET id == Len(h) + 1
        h1 == Append(h, Elem(t.tag, t.text, t.attrib, <<>>))
        r  == ParseChildren(t.children, h1, <<>>)
    IN  [heap |-> [r.heap EXCEPT ![id].children = r.ids], id |-> id]
ParseChildren(cs, h, ids) ==
    IF cs = <<>> THEN [heap |-> h, ids |-> ids]
    ELSE LET r == ParseElem(Head(cs), h)
         IN  ParseChildren(Tail(cs), r.heap, Append(ids, r.id))

\* game_tree.write: the tree below element id, as a document.
RECURSIVE Serialize(_, _)
Serialize(h, id) ==
    Elem(h[id].tag, h[id].text, h[id].attrib,
         [j \in 1..Len(h[id].children) |-> Serialize(h, h[id].children[j])])

\* list.remove / Element.remove: the sequence without its first occurrence of x.
RECURSIVE Remove(_, _)
Remove(s, x) ==
    IF s = <<>> THEN <<>>
    ELSE IF Head(s) = x THEN Tail(s)
    ELSE <<Head(s)>> \o Remove(Tail(s), x)

(***************************************************************************)
(* xml_find_one_child                                                      *)
(***************************************************************************)
\* No attribute filter (attrib is None).
NoAttrib == <<>>

\* child.attrib[key], for a key the element carries.
AttribValue(e, key) == (CHOOSE p \in e.attrib : p[1] = key)[2]

\* The for loop over the children from position k on, with the match found so
\* far.  A matching child is either a second match (raise) or the first one
\* (match = child; break).
RECURSIVE FindLoop(_, _, _, _, _, _)
FindLoop(h, kids, k, name, attrib, match) ==
    IF k > Len(kids) THEN [exc |-> NoExc, match |-> match]
    ELSE LET child == kids[k]
             found == IF match # NoElement
                      THEN [exc |-> KeyErrorMultiple, match |-> NoElement]
                      ELSE [exc |-> NoExc, match |-> child]
             next  == FindLoop(h, kids, k + 1, name, attrib, match)
         IN  IF h[child].tag = name
             THEN IF attrib = NoAttrib
                  THEN found
                  ELSE IF \E p \in h[child].attrib : p[1] = attrib[1]
                       THEN IF AttribValue(h[child], attrib[1]) = attrib[2]
                            THEN found
                            ELSE next
                       ELSE next
             ELSE next

xml_find_one_child(h, element, name, attrib) ==
    LET r == FindLoop(h, h[element].children, 1, name, attrib, NoElement)
    IN  IF r.exc # NoExc THEN r
        ELSE IF r.match = NoElement
             THEN [exc |-> KeyErrorNotFound, match |-> NoElement]
             ELSE r

(***************************************************************************)
(* Console input.  A line is a sequence of characters.                     *)
(***************************************************************************)
Digits == <<"0", "1", "2", "3", "4", "5", "6", "7", "8", "9">>

IsDigit(c) == \E d \in 1..10 : Digits[d] = c

DigitValue(c) == (CHOOSE d \in 1..10 : Digits[d] = c) - 1

\* str.strip of blanks, from the left and from the right.
RECURSIVE LStrip(_)
LStrip(s) == IF s # <<>> /\ Head(s) = " " THEN LStrip(Tail(s)) ELSE s

RECURSIVE RStrip(_)
RStrip(s) ==
    IF s # <<>> /\ s[Len(s)] = " " THEN RStrip(SubSeq(s, 1, Len(s) - 1)) ELSE s

\* The value of a non-empty sequence of decimal digits.
RECURSIVE DecimalValue(_)
DecimalValue(s) ==
    IF s = <<>> THEN 0
    ELSE DecimalValue(SubSeq(s, 1, Len(s) - 1)) * 10 + DigitValue(s[Len(s)])

\* int(line): blanks around the number are skipped, one sign is allowed,
\* then at least one digit and nothing but digits.  Anything else raises
\* ValueError.
py_int(line) ==
    LET t      == RStrip(LStrip(line))
        signed == t # <<>> /\ Head(t) \in {"-", "+"}
        body   == IF signed THEN Tail(t) ELSE t
    IN  IF body # <<>> /\ \A k \in 1..Len(body) : IsDigit(body[k])
        THEN [exc |-> NoExc,
              value |-> IF signed /\ Head(t) = "-"
                        THEN 0 - DecimalValue(body) ELSE DecimalValue(body)]
        ELSE [exc |-> "ValueError", value |-> 0]

\* str(n) for n >= 0.
RECURSIVE Numeral(_)
Numeral(n) ==
    IF n < 10 THEN <<Digits[n + 1]>>
    ELSE Numeral(n \div 10) \o <<Digits[(n % 10) + 1]>>

\* str.upper, on the letters the prompts are answered with.
UpperChar(c) ==
    CASE c = "y" -> "Y"
      [] c = "n" -> "N"
      [] c = "e" -> "E"
      [] c = "s" -> "S"
      [] OTHER   -> c

py_upper(line) == [k \in 1..Len(line) |-> UpperChar(line[k])]

\* What the operator may type at 'Which farmhand number would you like to
\* swap? ': every slot number of the longest roster and one more, zero, a
\* negative number, a padded number, text and the empty line.
SelectLines ==
    {Numeral(n) : n \in 0..(MaxRoster + 1)}
        \cup {<<"-", "1">>, <<" ", "1">>, <<"x">>, <<>>}

\* What the operator may type at 'Continue [Y/N]? '.
ConfirmLines == {<<"Y">>, <<"y">>, <<"N">>, <<"n">>, <<"y", "e", "s">>, <<>>}

\* console: the prompt input() was last called at, and what came of it: a
\* line, KeyboardInterrupt (Ctrl-C), or EOFError (end of input).
NoInput == [prompt |-> "", kind |-> "none", line |-> <<>>]
Typed(prompt, l) == [prompt |-> prompt, kind |-> "line", line |-> l]
Interrupted(prompt) == [prompt |-> prompt, kind |-> "KeyboardInterrupt", line |-> <<>>]
EndOfInput(prompt) == [prompt |-> prompt, kind |-> "EOFError", line |-> <<>>]

(***************************************************************************)
(* The save directory the run is started on                                *)
(***************************************************************************)
Name(text) == Leaf("name", text)
HomeLocation(text) == Leaf("homeLocation", text)

\* The children of the player element: complete; complete in another order
\* with other children; a name element without text; no name element; no
\* homeLocation element.
PlayerShapes ==
    { <<Name("Alice"), HomeLocation("Farm")>>,
      <<Leaf("money", "500"), HomeLocation("Farm"), Name("Alice")>>,
      <<Name(None), HomeLocation("Farm")>>,
      <<HomeLocation("Farm")>>,
      <<Name("Alice")>> }

\* The children of a farmhand entry: occupied; occupied by a namesake of the
\* player, with other children; unoccupied (no name element); a name element
\* without text; occupied without homeLocation.
FarmhandShapes ==
    { <<Name("Bob"), HomeLocation("Beach")>>,
      <<Leaf("money", "20"), HomeLocation("Cabin"), Name("Alice")>>,
      <<HomeLocation("Cabin")>>,
      <<Name(None), HomeLocation("Beach")>>,
      <<Name("Bob")>> }

SeqsUpTo(S, n) == UNION {[1..k -> S] : k \in 0..n}

Rosters == SeqsUpTo(FarmhandShapes, MaxRoster)

Farmer(children) == Elem("Farmer", None, {}, children)

\* The root's children, for a player and a roster.  The regular save; the
\* player last, after a <locations> that holds a nested <player>; a second
\* <player>; a second <farmhands>; no <farmhands>; no <player>.
Layouts(p, r) ==
    LET P == Elem("player", None, {}, p)
        F == Elem("farmhands", None, {}, [k \in 1..Len(r) |-> Farmer(r[k])])
        Q == Elem("player", None, {}, <<Name("Zed"), HomeLocation("Mine")>>)
        G == Elem("farmhands", None, {}, <<>>)
        X == Elem("locations", None, {}, <<Leaf("player", "decoy")>>)
    IN  { <<P, F>>, <<X, F, P>>, <<P, Q, F>>, <<P, F, G>>, <<P, X>>, <<X, F>> }

\* A path of the directory holds a document, holds bytes that are no XML,
\* holds a half-written document, or does not exist.
NoTree == Leaf("", None)
XmlFile(root) == [kind |-> "xml", root |-> root]
Malformed == [kind |-> "malformed", root |-> NoTree]
Partial == [kind |-> "partial", root |-> NoTree]
Absent == [kind |-> "absent", root |-> NoTree]

SaveFiles ==
    {XmlFile(Elem("SaveGame", None, {}, l)) :
        l \in UNION {Layouts(p, r) : p \in PlayerShapes, r \in Rosters}}
    \cup {XmlFile(Elem("Farm", None, {},
                       <<Elem("player", None, {}, <<Name("Alice")>>)>>)),
          Malformed}

\* What may already be at <save-file-name>.orig: nothing, or an earlier backup.
OrigFiles == {Absent, XmlFile(Elem("SaveGame", None, {}, <<>>))}

(***************************************************************************)
(* The run                                                                 *)
(***************************************************************************)
\* Exit statuses: sys.exit(0), sys.exit(3), and the interpreter's status for
\* an exception nothing catches.
ExitOk == 0
ExitXml == 3
ExitUncaught == 1

SavePath == "save"
OrigPath == "orig"

Init ==
    /\ pc = "parse"
    /\ fs \in [save : SaveFiles, orig : OrigFiles]
    /\ fs0 = fs
    /\ heap = <<>>
    /\ game_root = NoElement
    /\ player = NoElement
    /\ player_name = None
    /\ farmhands = NoElement
    /\ farmhand_names = <<>>
    /\ i = 0
    /\ target_farmhand_i = NoIndex
    /\ target_farmhand = NoElement
    /\ target_farmhand_name = None
    /\ console = NoInput
    /\ exit_status = Running
    /\ message = ""
    /\ find_query = <<>>
    /\ find_result = <<>>

\* sys.exit(status), after the message.
Exit(status, msg) ==
    /\ pc' = "done"
    /\ exit_status' = status
    /\ message' = msg

\* READ XML: ElementTree.parse, and the check of the root's tag.
LoadDocument ==
    /\ pc = "parse"
    /\ IF fs[SavePath].kind # "xml"
       THEN /\ Exit(ExitXml, "Problem parsing save file XML")
            /\ UNCHANGED <<heap, game_root>>
       ELSE LET r == ParseElem(fs[SavePath].root, <<>>)
            IN  /\ heap' = r.heap
                /\ game_root' = r.id
                /\ IF r.heap[r.id].tag # "SaveGame"
                   THEN Exit(ExitXml, "Root XML tag is not SaveGame.")
                   ELSE /\ pc' = "find_player"
                        /\ UNCHANGED <<exit_status, message>>
    /\ UNCHANGED <<fs, fs0, player, player_name, farmhands, farmhand_names, i,
                   target_farmhand_i, target_farmhand, target_farmhand_name,
                   console, find_query, find_result>>

\* Look for the player tag in the root, and for the player's name.
FindPlayer ==
    /\ pc = "find_player"
    /\ LET p == xml_find_one_child(heap, game_root, "player", NoAttrib)
       IN  IF p.exc # NoExc
           THEN /\ Exit(ExitXml, "Could not find the player!")
                /\ UNCHANGED <<player, player_name>>
           ELSE /\ player' = p.match
                /\ LET n == xml_find_one_child(heap, p.match, "name", NoAttrib)
                   IN  IF n.exc # NoExc
                       THEN /\ Exit(ExitXml, "Could not find the player!")
                            /\ UNCHANGED player_name
                       ELSE IF heap[n.match].text = None
                       THEN /\ Exit(ExitXml, "Player has no name!")
                            /\ UNCHANGED player_name
                       ELSE /\ player_name' = heap[n.match].text
                            /\ pc' = "find_farmhands"
                            /\ UNCHANGED <<exit_status, message>>
    /\ UNCHANGED <<fs, fs0, heap, game_root, farmhands, farmhand_names, i,
                   target_farmhand_i, target_farmhand, target_farmhand_name,
                   console, find_query, find_result>>

\* Look for the farmhands container in the root.
FindFarmhands ==
    /\ pc = "find_farmhands"
    /\ LET f == xml_find_one_child(heap, game_root, "farmhands", NoAttrib)
       IN  IF f.exc # NoExc
           THEN /\ Exit(ExitXml, "Could not drill down to buidings!")
                /\ UNCHANGED <<farmhands, farmhand_names, i>>
           ELSE /\ farmhands' = f.match
                /\ farmhand_names' = <<>>
                /\ i' = 0
                /\ pc' = "extract"
                /\ UNCHANGED <<exit_status, message>>
    /\ UNCHANGED <<fs, fs0, heap, game_root, player, player_name,
                   target_farmhand_i, target_farmhand, target_farmhand_name,
                   console, find_query, find_result>>

\* The body of the while loop over the farmhands, for one farmhand: the list
\* of names after it, or the exit it takes.
ExtractStepSkipsUnoccupied(h, names, farmhand) ==
    LET n == xml_find_one_child(h, farmhand, "name", NoAttrib)
    IN  IF n.exc # NoExc THEN [exit |-> FALSE, names |-> names]
        ELSE IF h[n.match].text = None THEN [exit |-> TRUE, names |-> names]
        ELSE [exit |-> FALSE, names |-> Append(names, h[n.match].text)]

ExtractStep(h, names, farmhand) ==
    LET n == xml_find_one_child(h, farmhand, "name", NoAttrib)
    IN  IF n.exc # NoExc THEN [exit |-> FALSE, names |-> Append(names, None)]
        ELSE IF h[n.match].text = None THEN [exit |-> TRUE, names |-> names]
        ELSE [exit |-> FALSE, names |-> Append(names, h[n.match].text)]

\* Look up who is in each cabin: one turn of the loop.
ExtractName ==
    /\ pc = "extract"
    /\ i < Len(heap[farmhands].children)
    /\ LET r == ExtractStep(heap, farmhand_names, heap[farmhands].children[i + 1])
       IN  IF r.exit
           THEN /\ Exit(ExitXml, "Found a farmhand with no name!")
                /\ UNCHANGED <<farmhand_names, i>>
           ELSE /\ farmhand_names' = r.names
                /\ i' = i + 1
                /\ UNCHANGED <<pc, exit_status, message>>
    /\ UNCHANGED <<fs, fs0, heap, game_root, player, player_name, farmhands,
                   target_farmhand_i, target_farmhand, target_farmhand_name,
                   console, find_query, find_result>>

\* The loop is over: show the player and the occupied slots, and go on to ask.
ShowRoster ==
    /\ pc = "extract"
    /\ ~(i < Len(heap[farmhands].children))
    /\ pc' = "select"
    /\ target_farmhand_i' = NoIndex
    /\ UNCHANGED <<fs, fs0, heap, game_root, player, player_name, farmhands,
                   farmhand_names, i, target_farmhand, target_farmhand_name,
                   console, exit_status, message, find_query, find_result>>

\* Convert the target cabin to an array index.
slot_index_unconverted(value) == value

slot_index(value) == value - 1

\* One turn of the 'Which farmhand number' loop on a line the operator typed.
SelectFarmhand(line) ==
    /\ pc = "select"
    /\ console' = Typed("select", line)
    /\ LET v   == py_int(line)
           idx == slot_index(v.value)
       IN  IF v.exc # NoExc \/ v.value <= 0
           THEN \* ValueError, or 'Please enter a positive number'
                /\ target_farmhand_i' = NoIndex
                /\ UNCHANGED <<pc, target_farmhand, target_farmhand_name>>
           ELSE IF ~(idx + 1 \in 1..Len(farmhand_names))
           THEN \* IndexError
                /\ target_farmhand_i' = NoIndex
                /\ UNCHANGED <<pc, target_farmhand, target_farmhand_name>>
           ELSE /\ target_farmhand_name' = farmhand_names[idx + 1]
                /\ target_farmhand' = heap[farmhands].children[idx + 1]
                /\ IF farmhand_names[idx + 1] = None
                   THEN \* 'That cabin is empty.'
                        /\ target_farmhand_i' = NoIndex
                        /\ UNCHANGED pc
                   ELSE /\ target_farmhand_i' = idx
                        /\ pc' = "confirm"
    /\ UNCHANGED <<fs, fs0, heap, game_root, player, player_name, farmhands,
                   farmhand_names, i, exit_status, message, find_query,
                   find_result>>

\* Ctrl-C at either prompt: 'Exiting', sys.exit(0).
PromptInterrupt ==
    /\ pc \in {"select", "confirm"}
    /\ console' = Interrupted(pc)
    /\ Exit(ExitOk, "Exiting")
    /\ UNCHANGED <<fs, fs0, heap, game_root, player, player_name, farmhands,
                   farmhand_names, i, target_farmhand_i, target_farmhand,
                   target_farmhand_name, find_query, find_result>>

\* End of input at either prompt: input() raises EOFError, which nothing
\* catches.
PromptEndOfInput ==
    /\ pc \in {"select", "confirm"}
    /\ console' = EndOfInput(pc)
    /\ Exit(ExitUncaught, "EOFError")
    /\ UNCHANGED <<fs, fs0, heap, game_root, player, player_name, farmhands,
                   farmhand_names, i, target_farmhand_i, target_farmhand,
                   target_farmhand_name, find_query, find_result>>

\* do_continue for an answer: "Y", "N", or None (ask again).
confirm_answer_case_sensitive(line) ==
    IF line = <<"Y">> THEN "Y" ELSE IF line = <<"N">> THEN "N" ELSE None

confirm_answer(line) ==
    LET continue_response == py_upper(line)
    IN  IF continue_response = <<"Y">> THEN "Y"
        ELSE IF continue_response = <<"N">> THEN "N"
        ELSE None

\* One turn of the 'Continue [Y/N]? ' loop on a line the operator typed.
Confirm(line) ==
    /\ pc = "confirm"
    /\ console' = Typed("confirm", line)
    /\ LET do_continue == confirm_answer(line)
       IN  IF do_continue = "Y"
           THEN /\ pc' = "remove"
                /\ UNCHANGED <<exit_status, message>>
           ELSE IF do_continue = "N"
           THEN Exit(ExitOk, "Exiting")
           ELSE UNCHANGED <<pc, exit_status, message>>
    /\ UNCHANGED <<fs, fs0, heap, game_root, player, player_name, farmhands,
                   farmhand_names, i, target_farmhand_i, target_farmhand,
                   target_farmhand_name, find_query, find_result>>

\* Step: Remove player and farmhand.
RemoveStep ==
    /\ pc = "remove"
    /\ heap' = [heap EXCEPT
                  ![game_root].children = Remove(@, player),
                  ![farmhands].children = Remove(@, target_farmhand)]
    /\ pc' = "change_tags"
    /\ UNCHANGED <<fs, fs0, game_root, player, player_name, farmhands,
                   farmhand_names, i, target_farmhand_i, target_farmhand,
                   target_farmhand_name, console, exit_status, message,
                   find_query, find_result>>

\* Step: Change tags.
ChangeTags ==
    /\ pc = "change_tags"
    /\ heap' = [heap EXCEPT ![player].tag = "Farmer",
                            ![target_farmhand].tag = "player"]
    /\ pc' = "swap_home"
    /\ UNCHANGED <<fs, fs0, game_root, player, player_name, farmhands,
                   farmhand_names, i, target_farmhand_i, target_farmhand,
                   target_farmhand_name, console, exit_status, message,
                   find_query, find_result>>

\* Do the swap: the texts of elements a and b change places.
swap_text_without_temporary(h, a, b) ==
    [h EXCEPT ![a].text = h[b].text]

swap_text(h, a, b) ==
    LET player_homelocation_text == h[a].text
    IN  [h EXCEPT ![a].text = h[b].text, ![b].text = player_homelocation_text]

\* Step: Swap home locations.
SwapHomeLocations ==
    /\ pc = "swap_home"
    /\ LET p == xml_find_one_child(heap, player, "homeLocation", NoAttrib)
           t == xml_find_one_child(heap, target_farmhand, "homeLocation", NoAttrib)
       IN  IF p.exc # NoExc \/ t.exc # NoExc
           THEN /\ Exit(ExitXml, "Player or farmhand is missing a homeLocation!")
                /\ UNCHANGED heap
           ELSE /\ heap' = swap_text(heap, p.match, t.match)
                /\ pc' = "insert"
                /\ UNCHANGED <<exit_status, message>>
    /\ UNCHANGED <<fs, fs0, game_root, player, player_name, farmhands,
                   farmhand_names, i, target_farmhand_i, target_farmhand,
                   target_farmhand_name, console, find_query, find_result>>

\* Element.insert(0, x): x becomes the first child.
insert_first_appends(children, x) == Append(children, x)

insert_first(children, x) == <<x>> \o children

\* Step: Insert back into tree: the old player at the end of the farmhands,
\* the new player at the start of the root.
InsertBack ==
    /\ pc = "insert"
    /\ heap' = [heap EXCEPT
                  ![farmhands].children = Append(@, player),
                  ![game_root].children = insert_first(@, target_farmhand)]
    /\ pc' = "rename"
    /\ UNCHANGED <<fs, fs0, game_root, player, player_name, farmhands,
                   farmhand_names, i, target_farmhand_i, target_farmhand,
                   target_farmhand_name, console, exit_status, message,
                   find_query, find_result>>

\* A rename that succeeds: dst holds what src held, src is gone.
rename(files, src, dst) == [files EXCEPT ![dst] = files[src], ![src] = Absent]

\* save_file.rename(orig_file) is os.rename.  With nothing at orig_file it
\* renames.  With a file there, POSIX replaces that file silently and Windows
\* raises FileExistsError; either way the call is not guarded, so an error
\* ends the run with the interpreter's status.
RenameSave ==
    /\ pc = "rename"
    /\ \/ /\ fs' = rename(fs, SavePath, OrigPath)
          /\ pc' = "write"
          /\ UNCHANGED <<exit_status, message>>
       \/ /\ fs[OrigPath].kind # "absent"
          /\ Exit(ExitUncaught, "FileExistsError")
          /\ UNCHANGED fs
       \/ /\ Exit(ExitUncaught, "OSError")
          /\ UNCHANGED fs
    /\ UNCHANGED <<fs0, heap, game_root, player, player_name, farmhands,
                   farmhand_names, i, target_farmhand_i, target_farmhand,
                   target_farmhand_name, console, find_query, find_result>>

\* The path game_tree.write is given: str(save_file).
write_target_orig_file == OrigPath

write_target == SavePath

\* Write out the new XML to the original path, 'All done!', sys.exit(0).  A
\* write that fails leaves no file or a part of one, and is not caught.
WriteSave ==
    /\ pc = "write"
    /\ \/ /\ fs' = [fs EXCEPT ![write_target] = XmlFile(Serialize(heap, game_root))]
          /\ Exit(ExitOk, "All done!")
       \/ /\ \E left \in {fs[write_target], Partial} :
                fs' = [fs EXCEPT ![write_target] = left]
          /\ Exit(ExitUncaught, "OSError")
    /\ UNCHANGED <<fs0, heap, game_root, player, player_name, farmhands,
                   farmhand_names, i, target_farmhand_i, target_farmhand,
                   target_farmhand_name, console, find_query, find_result>>

Next ==
    \/ LoadDocument
    \/ FindPlayer
    \/ FindFarmhands
    \/ ExtractName
    \/ ShowRoster
    \/ \E line \in SelectLines : SelectFarmhand(line)
    \/ PromptInterrupt
    \/ PromptEndOfInput
    \/ \E line \in ConfirmLines : Confirm(line)
    \/ RemoveStep
    \/ ChangeTags
    \/ SwapHomeLocations
    \/ InsertBack
    \/ RenameSave
    \/ WriteSave

Spec == Init /\ [][Next]_vars

(***************************************************************************)
(* xml_find_one_child on its own: one call, on any parent of up to         *)
(* MaxChildren children, for any tag and attribute filter.                 *)
(***************************************************************************)
\* The children a parent is made of: tag a bare, with k=1, with k=2 and with
\* another attribute; tag b holding a nested a; tag b with k=1.
FindKids ==
    { Elem("a", None, {}, <<>>),
      Elem("a", None, {<<"k", "1">>}, <<>>),
      Elem("a", None, {<<"k", "2">>, <<"j", "1">>}, <<>>),
      Elem("b", None, {}, <<Elem("a", None, {<<"k", "1">>}, <<>>)>>),
      Elem("b", None, {<<"k", "1">>}, <<>>) }

FindParents == {Elem("parent", None, {}, c) : c \in SeqsUpTo(FindKids, MaxChildren)}

FindNames == {"a", "b", "c"}

FindFilters == {NoAttrib, <<"k", "1">>, <<"k", "2">>, <<"j", "2">>}

InitFind ==
    /\ pc = "find"
    /\ heap \in {ParseElem(t, <<>>).heap : t \in FindParents}
    /\ game_root = 1
    /\ fs = [save |-> Absent, orig |-> Absent]
    /\ fs0 = fs
    /\ player = NoElement
    /\ player_name = None
    /\ farmhands = NoElement
    /\ farmhand_names = <<>>
    /\ i = 0
    /\ target_farmhand_i = NoIndex
    /\ target_farmhand = NoElement
    /\ target_farmhand_name = None
    /\ console = NoInput
    /\ exit_status = Running
    /\ message = ""
    /\ find_query = <<>>
    /\ find_result = <<>>

\* One call xml_find_one_child(parent, name, attrib); what it returns or
\* raises is kept in find_result.
FindCall ==
    /\ pc = "find"
    /\ \E name \in FindNames, attrib \in FindFilters :
          /\ find_query' = [name |-> name, attrib |-> attrib]
          /\ find_result' = xml_find_one_child(heap, game_root, name, attrib)
    /\ pc' = "found"
    /\ UNCHANGED <<fs, fs0, heap, game_root, player, player_name, farmhands,
                   farmhand_names, i, target_farmhand_i, target_farmhand,
                   target_farmhand_name, console, exit_status, message>>

NextFind == FindCall

SpecFind == InitFind /\ [][NextFind]_vars

(***************************************************************************)
(* Properties of xml_find_one_child (checked under SpecFind)               *)
(***************************************************************************)
\* The positions of the direct children of element parent that match: the
\* tag is name and, with a filter, the child carries the attribute with
\* exactly the value.
Matching(h, parent, name, attrib) ==
    {k \in 1..Len(h[parent].children) :
        LET c == h[h[parent].children[k]]
        IN  /\ c.tag = name
            /\ attrib = NoAttrib \/ <<attrib[1], attrib[2]>> \in c.attrib}

\* C3: xml_find_one_child looks only at the direct children of the parent:
\* with exactly one matching child it returns that child, with two or more it
\* fails with the duplicate error, with none it fails with the not-found
\* error, and it never modifies the tree.
C3_FindOneChildContract ==
    [][(pc = "find" /\ pc' = "found") =>
        LET m == Matching(heap, game_root, find_query'.name, find_query'.attrib)
        IN  /\ heap' = heap
            /\ Cardinality(m) = 1 =>
                   /\ find_result'.exc = NoExc
                   /\ \A k \in m : find_result'.match = heap[game_root].children[k]
            /\ Cardinality(m) >= 2 => find_result'.exc = KeyErrorMultiple
            /\ m = {} => find_result'.exc = KeyErrorNotFound]_vars

(***************************************************************************)
(* Properties of the run (checked under Spec)                              *)
(***************************************************************************)
\* The tree as it was parsed from the save file the run started on.
Heap0 == ParseElem(fs0[SavePath].root, <<>>).heap

\* The first direct child of element id tagged tag, NoElement without one.
FirstChild(h, id, tag) ==
    LET m == {k \in 1..Len(h[id].children) : h[h[id].children[k]].tag = tag}
    IN  IF m = {} THEN NoElement
        ELSE h[id].children[CHOOSE k \in m : \A j \in m : k <= j]

\* The same on a document: the position of the first child tagged tag, 0
\* without one.
FirstIndex(children, tag) ==
    LET m == {k \in 1..Len(children) : children[k].tag = tag}
    IN  IF m = {} THEN 0 ELSE CHOOSE k \in m : \A j \in m : k <= j

CountTagged(children, tag) ==
    Cardinality({k \in 1..Len(children) : children[k].tag = tag})

\* The text of an element's first child tagged tag.
TextOf(e, tag) == e.children[FirstIndex(e.children, tag)].text

WithoutAt(s, k) == [j \in 1..(Len(s) - 1) |-> IF j < k THEN s[j] ELSE s[j + 1]]

WithText(e, tag, text) ==
    [e EXCEPT !.children[FirstIndex(e.children, tag)].text = text]

\* The document the swap of the player with roster entry k is to produce,
\* from the document it started on.
ExpectedSwap(root, k) ==
    LET ip == FirstIndex(root.children, "player")
        ir == FirstIndex(root.children, "farmhands")
        P  == root.children[ip]
        F  == root.children[ir]
        E  == F.children[k]
        P2 == [WithText(P, "homeLocation", TextOf(E, "homeLocation"))
                 EXCEPT !.tag = "Farmer"]
        E2 == [WithText(E, "homeLocation", TextOf(P, "homeLocation"))
                 EXCEPT !.tag = "player"]
        F2 == [F EXCEPT !.children = Append(WithoutAt(F.children, k), P2)]
    IN  [root EXCEPT
           !.children = <<E2>> \o WithoutAt([root.children EXCEPT ![ir] = F2], ip)]

\* One player with a name and a homeLocation, and one farmhands container.
ValidDocument(file) ==
    /\ file.kind = "xml"
    /\ file.root.tag = "SaveGame"
    /\ CountTagged(file.root.children, "player") = 1
    /\ CountTagged(file.root.children, "farmhands") = 1
    /\ LET P == file.root.children[FirstIndex(file.root.children, "player")]
       IN  /\ CountTagged(P.children, "name") = 1
           /\ CountTagged(P.children, "homeLocation") = 1
           /\ TextOf(P, "name") # None

\* The run ended with the swap written.
SwapWritten == pc = "done" /\ message = "All done!"

\* The run ended because the operator said so.
Cancelled == pc = "done" /\ message = "Exiting"

\* The run got as far as the rename (the Persist step).
PersistReached ==
    \/ pc = "write"
    \/ pc = "done" /\ message \in {"All done!", "FileExistsError", "OSError"}

\* The in-memory mutation is complete (Insert back into tree is done).
MutationComplete == pc = "rename" \/ PersistReached

ExactlyOne(a, b, c) ==
    \/ a /\ ~b /\ ~c
    \/ ~a /\ b /\ ~c
    \/ ~a /\ ~b /\ c

\* C1: all-or-nothing persistence.  In every terminal state exactly one of
\* these holds: the swap is complete (the save path holds the swapped
\* document, the backup path the original content); the save path still holds
\* the original content; or the run failed and the original content is at the
\* backup path.  The original content is never at neither path.
C1_AllOrNothing ==
    pc = "done" =>
        /\ ExactlyOne(
             /\ SwapWritten
             /\ exit_status = ExitOk
             /\ fs[SavePath] = XmlFile(ExpectedSwap(fs0[SavePath].root,
                                                    target_farmhand_i + 1))
             /\ fs[OrigPath] = fs0[SavePath],
             fs[SavePath] = fs0[SavePath],
             exit_status # ExitOk /\ fs[OrigPath] = fs0[SavePath])
        /\ fs0[SavePath] \in {fs[SavePath], fs[OrigPath]}

\* A write that failed after the rename, in a directory that already held a
\* backup: the save path holds part of a document, the backup the original.
C1_Witness ==
    /\ pc = "done"
    /\ exit_status = ExitUncaught
    /\ fs0[OrigPath].kind = "xml"
    /\ fs[SavePath].kind = "partial"
    /\ fs[OrigPath] = fs0[SavePath]

\* C2: with a file already at <save-file-name>.orig when the Persist step is
\* reached, the run aborts fatally before anything is written: the file at
\* the backup path and the save file keep their content and no swapped
\* document is written.
C2_BackupConflictAborts ==
    (fs0[OrigPath].kind # "absent" /\ PersistReached) =>
        /\ fs = fs0
        /\ pc = "done"
        /\ exit_status # ExitOk

\* C4: for a valid document, after selecting slot k and confirming, the
\* written document is the original with the root player replaced by the
\* element that was farmhand k (first child of the root, tagged player, with
\* farmhand k's name and the former player's homeLocation text) and the
\* former player at the end of the farmhands (tagged Farmer, with its own
\* name and farmhand k's homeLocation text); nothing else differs.
C4_SwapResult ==
    (SwapWritten /\ ValidDocument(fs0[SavePath])) =>
        LET old == fs0[SavePath].root
            new == fs[SavePath].root
            k   == target_farmhand_i + 1
            P   == old.children[FirstIndex(old.children, "player")]
            E   == old.children[FirstIndex(old.children, "farmhands")].children[k]
            NP  == new.children[FirstIndex(new.children, "player")]
            NF  == new.children[FirstIndex(new.children, "farmhands")]
            OP  == NF.children[Len(NF.children)]
        IN  /\ fs[SavePath] = XmlFile(ExpectedSwap(old, k))
            /\ heap[game_root].children[1]
                 = Heap0[FirstChild(Heap0, 1, "farmhands")].children[k]
            /\ CountTagged(new.children, "player") = 1
            /\ TextOf(NP, "name") = TextOf(E, "name")
            /\ TextOf(NP, "homeLocation") = TextOf(P, "homeLocation")
            /\ OP.tag = "Farmer"
            /\ TextOf(OP, "name") = TextOf(P, "name")
            /\ TextOf(OP, "homeLocation") = TextOf(E, "homeLocation")

\* A swap written for a valid document whose player has another child, with
\* the first of two roster entries selected.
C4_Witness ==
    /\ SwapWritten
    /\ ValidDocument(fs0[SavePath])
    /\ target_farmhand_i = 0
    /\ Len(farmhand_names) = 2
    /\ CountTagged(Serialize(Heap0, player).children, "money") = 1
    /\ fs[SavePath].kind = "xml"

\* C5: answering N or n at the confirmation prompt, or an interrupt at either
\* prompt, ends the run with status 0, the directory as it was (save file
\* unchanged, no backup created) and the tree never mutated.
C5_CancelChangesNothing ==
    (\/ console.kind = "KeyboardInterrupt"
     \/ console.prompt = "confirm" /\ console.kind = "line"
                                   /\ console.line \in {<<"N">>, <<"n">>}) =>
        /\ pc = "done"
        /\ exit_status = ExitOk
        /\ fs = fs0
        /\ heap = Heap0

\* The operator answered n and the run is over.
C5_Witness ==
    /\ console = Typed("confirm", <<"n">>)
    /\ pc = "done"
    /\ exit_status = ExitOk
    /\ fs0[OrigPath].kind = "absent"
    /\ fs[OrigPath].kind = "absent"

\* The line, blanks aside, is the number n >= 1 in decimal.
Denotes(line, n) ==
    LET t == SelectSeq(line, LAMBDA c : c # " ")
    IN  t = Numeral(n) \/ t = <<"+">> \o Numeral(n)

\* C6: a line at the slot prompt never changes the tree, the roster, the
\* recorded names or the files.  A line that is not the 1-based number of an
\* occupied slot (text, zero, negative, beyond the roster, an empty slot)
\* returns to the same prompt with the process running; the number k of an
\* occupied slot goes on to the confirmation with roster entry k-1 (0-based)
\* and its name selected.
C6_SelectionLoop ==
    [][(pc = "select" /\ console'.kind = "line") =>
        LET occupied == {k \in 1..Len(farmhand_names) :
                            /\ farmhand_names[k] # None
                            /\ Denotes(console'.line, k)}
        IN  /\ heap' = heap
            /\ farmhand_names' = farmhand_names
            /\ fs' = fs
            /\ IF occupied = {}
               THEN pc' = "select" /\ exit_status' = Running
               ELSE \A k \in occupied :
                      /\ pc' = "confirm"
                      /\ target_farmhand_i' = k - 1
                      /\ target_farmhand' = heap[farmhands].children[k]
                      /\ target_farmhand_name' = farmhand_names[k]]_vars

\* Slot 2 was selected, past an unoccupied slot 1.
C6_Witness ==
    /\ pc = "confirm"
    /\ console = Typed("select", <<"2">>)
    /\ Len(farmhand_names) = 2
    /\ farmhand_names[1] = None
    /\ target_farmhand = heap[farmhands].children[2]

\* The document cannot get past Load and Locate: unparseable, wrong root tag,
\* no player, no farmhands container, or a player without name text.
LocateFault(file) ==
    \/ file.kind # "xml"
    \/ file.root.tag # "SaveGame"
    \/ CountTagged(file.root.children, "player") = 0
    \/ CountTagged(file.root.children, "farmhands") = 0
    \/ LET P == file.root.children[FirstIndex(file.root.children, "player")]
       IN  CountTagged(P.children, "name") = 0 \/ TextOf(P, "name") = None

\* The operator confirmed the swap, and the player or the selected farmhand
\* has no homeLocation.
HomeLocationFault ==
    /\ console.prompt = "confirm"
    /\ console.kind = "line"
    /\ console.line \in {<<"Y">>, <<"y">>}
    /\ \/ FirstChild(Heap0, player, "homeLocation") = NoElement
       \/ FirstChild(Heap0, target_farmhand, "homeLocation") = NoElement

\* C7: every fatal condition ends the process with a documented non-zero
\* status (1, 2 or 3): the document faults with 3, a collision at the backup
\* path and a failed write with a non-zero one; status 0 comes only from a
\* completed swap or a cancellation.
C7_ExitStatuses ==
    pc = "done" =>
        /\ exit_status \in {0, 1, 2, 3}
        /\ LocateFault(fs0[SavePath]) => exit_status = ExitXml
        /\ (~LocateFault(fs0[SavePath]) /\ HomeLocationFault) => exit_status = ExitXml
        /\ (PersistReached /\ fs0[OrigPath].kind # "absent") => exit_status # ExitOk
        /\ fs[SavePath].kind \in {"partial", "absent"} => exit_status # ExitOk
        /\ exit_status = ExitOk => SwapWritten \/ Cancelled

\* The name recorded for a farmhand: None without a name child, else the text
\* of its first name child.
NameRecorded(h, farmhand) ==
    IF FirstChild(h, farmhand, "name") = NoElement THEN None
    ELSE h[FirstChild(h, farmhand, "name")].text

\* C8 (amended): the names are recorded one per farmhand in roster order,
\* None for an entry without a name child and the name text otherwise; once
\* the extraction is over the list has one entry per farmhand.  An entry
\* without a name child never ends the run; the extraction ends the run, with
\* status 3, only at an entry whose name child has no text.
C8_NamesExtracted ==
    farmhands # NoElement =>
        LET roster == Heap0[farmhands].children
            n      == Len(farmhand_names)
        IN  /\ n <= Len(roster)
            /\ \A j \in 1..n :
                  farmhand_names[j] = NameRecorded(Heap0, roster[j])
            /\ \A j \in 1..n :
                  FirstChild(Heap0, roster[j], "name") = NoElement
                      => farmhand_names[j] = None
            /\ pc = "extract" => n = i
            /\ pc \notin {"extract", "done"} => n = Len(roster)
            /\ (pc = "done" /\ n < Len(roster)) =>
                  /\ exit_status = ExitXml
                  /\ message = "Found a farmhand with no name!"
                  /\ FirstChild(Heap0, roster[n + 1], "name") # NoElement
                  /\ NameRecorded(Heap0, roster[n + 1]) = None

\* The extraction is over for a roster of an unoccupied and an occupied slot.
C8_Witness ==
    /\ pc = "select"
    /\ Len(farmhand_names) = 2
    /\ farmhand_names[1] = None
    /\ farmhand_names[2] # None

\* C8 as claimed: whatever the roster, the list gets one entry per farmhand,
\* None for every entry no name text can be read from, and such an entry
\* never ends the run.
C8_NoNameNeverTerminates ==
    (farmhands # NoElement /\ pc \notin {"find_farmhands", "extract"}) =>
        LET roster == Heap0[farmhands].children
        IN  /\ Len(farmhand_names) = Len(roster)
            /\ \A j \in 1..Len(roster) :
                  NameRecorded(Heap0, roster[j]) = None => farmhand_names[j] = None

\* C9: after a completed mutation the root has exactly one child tagged
\* player, its first; the farmhands container has as many entries as before,
\* the retagged former player last, the other entries in their order.
C9_StructureAfterMutation ==
    MutationComplete =>
        LET kids   == heap[game_root].children
            roster == heap[farmhands].children
        IN  /\ Cardinality({k \in 1..Len(kids) : heap[kids[k]].tag = "player"}) = 1
            /\ heap[kids[1]].tag = "player"
            /\ kids[1] = target_farmhand
            /\ Len(roster) = Len(Heap0[farmhands].children)
            /\ roster[Len(roster)] = player
            /\ heap[player].tag = "Farmer"
            /\ roster = Append(Remove(Heap0[farmhands].children, target_farmhand),
                               player)

\* The homeLocation text of element id in tree h.
HomeText(h, id) == h[FirstChild(h, id, "homeLocation")].text

\* The homeLocation texts have been exchanged.
HomesSwapped == pc = "insert" \/ MutationComplete

\* C10 (amended): the home location stays with the structural slot.  After
\* the swap the new root player (the former farmhand, carrying its own name)
\* has the homeLocation text the root player had, and the former player
\* (carrying its own name) has the text the selected roster entry had.
C10_HomeLocationStaysWithSlot ==
    HomesSwapped =>
        /\ HomeText(heap, target_farmhand) = HomeText(Heap0, player)
        /\ HomeText(heap, player) = HomeText(Heap0, target_farmhand)
        /\ NameRecorded(heap, player) = player_name
        /\ NameRecorded(heap, target_farmhand) = target_farmhand_name

\* A written swap of two characters with different home locations.
C10_Witness ==
    /\ SwapWritten
    /\ HomeText(Heap0, player) # HomeText(Heap0, target_farmhand)
    /\ HomeText(heap, target_farmhand) = "Farm"

\* C10 as claimed: the home location text travels with the character: after
\* the swap each of the two elements, which carries its character's name, has
\* the homeLocation text it had before.
C10_HomeLocationFollowsCharacter ==
    HomesSwapped =>
        /\ HomeText(heap, player) = HomeText(Heap0, player)
        /\ HomeText(heap, target_farmhand) = HomeText(Heap0, target_farmhand)

====
